---------------------------- MODULE Spec2Model ----------------------------
(***************************************************************************)
(* Model of the matrix-factorization notebook                              *)
(* (python/tutorials/matrix_factorization.ipynb): the dataset retrieval    *)
(* cell, max_id, DataIter (construction, __iter__, reset), RMSE and        *)
(* test_RMSE.                                                              *)
(*                                                                         *)
(* A text line is a sequence of one-character strings, so that             *)
(* line.strip().split('\t'), int() and float() are computed as Python      *)
(* computes them.  Numbers are integers: every sum, difference and         *)
(* product RMSE forms on them is exact in double precision, and the value  *)
(* math.sqrt(ret / n) is represented by the reduced fraction ret / n it    *)
(* is the root of (division and square root are correctly rounded, so the  *)
(* double returned is a function of that fraction).                        *)
(***************************************************************************)
EXTENDS Integers, Sequences, FiniteSets

(***************************************************************************)
(* Bounds of the model.                                                    *)
(***************************************************************************)
MaxLines == 3        \* lines of an extracted file
MaxBatch == 3        \* largest batch_size handed to DataIter
MaxRows == 4         \* records of a DataIter taken right after construction
MaxLen == 2          \* length of the sequences handed to RMSE
MaxVal == 2          \* RMSE inputs are drawn from 0 .. MaxVal

(***************************************************************************)
(* Text: characters, str.strip, str.split, int, float.                     *)
(***************************************************************************)
TAB == "\t"
NL == "\n"
SP == " "

Digits == {"0", "1", "2", "3", "4", "5", "6", "7", "8", "9"}

DigitVal(c) ==
    CASE c = "0" -> 0 [] c = "1" -> 1 [] c = "2" -> 2 [] c = "3" -> 3
      [] c = "4" -> 4 [] c = "5" -> 5 [] c = "6" -> 6 [] c = "7" -> 7
      [] c = "8" -> 8 [] c = "9" -> 9

\* the characters str.strip() removes, among those of the model's alphabet
IsSpace(c) == c \in {SP, TAB, NL}

RECURSIVE LStrip(_)
LStrip(s) ==
    IF s # <<>> /\ IsSpace(Head(s)) THEN LStrip(Tail(s)) ELSE s

RECURSIVE RStrip(_)
RStrip(s) ==
    IF s # <<>> /\ IsSpace(s[Len(s)]) THEN RStrip(SubSeq(s, 1, Len(s) - 1)) ELSE s

\* str.strip(): leading and trailing whitespace removed
Strip(s) == RStrip(LStrip(s))

\* str.split(sep): the fields between the separators, empty fields kept
RECURSIVE SplitFrom(_, _, _)
SplitFrom(s, sep, cur) ==
    IF s = <<>> THEN <<cur>>
    ELSE IF Head(s) = sep THEN <<cur>> \o SplitFrom(Tail(s), sep, <<>>)
    ELSE SplitFrom(Tail(s), sep, Append(cur, Head(s)))

Split(s, sep) == SplitFrom(s, sep, <<>>)

\* tks = line.strip().split('\t')
Tokens(line) == Split(Strip(line), TAB)

\* whether int(tok) returns: surrounding whitespace is accepted, then one or
\* more decimal digits (the alphabet holds no sign); otherwise ValueError
IsInt(tok) ==
    LET t == Strip(tok)
    IN  t # <<>> /\ \A i \in 1..Len(t) : t[i] \in Digits

RECURSIVE DigitsVal(_)
DigitsVal(t) ==
    IF t = <<>> THEN 0
    ELSE 10 * DigitsVal(SubSeq(t, 1, Len(t) - 1)) + DigitVal(t[Len(t)])

\* int(tok), for a token int() accepts
IntOf(tok) == DigitsVal(Strip(tok))

\* float(tok): over the alphabet (no '.', 'e', sign) float() accepts what
\* int() accepts and returns the same number
IsFloat(tok) == IsInt(tok)

FloatOf(tok) == IntOf(tok)

(***************************************************************************)
(* The files of the archive.  A file is a sequence of lines; the lines are *)
(* drawn from Lines, which holds well-formed rating rows, rows with too    *)
(* few and too many columns, a row whose last column is empty, a blank     *)
(* line and a row of words.                                                *)
(***************************************************************************)
RECURSIVE JoinTab(_)
JoinTab(cols) ==
    IF Len(cols) = 0 THEN <<>>
    ELSE IF Len(cols) = 1 THEN cols[1]
    ELSE cols[1] \o <<TAB>> \o JoinTab(Tail(cols))

Row(cols) == JoinTab(cols) \o <<NL>>

Lines ==
    { Row(<< <<"1">>, <<"2">>, <<"3">>, <<"9">> >>),          \* 1 2 3 9
      Row(<< <<"1", "2">>, <<"1">>, <<"5">>, <<"9">> >>),     \* 12 1 5 9
      Row(<< <<"1">>, <<"2">>, <<"3">> >>),                   \* three columns
      Row(<< <<"1">>, <<"2">>, <<"3">>, <<"9">>, <<"9">> >>), \* five columns
      Row(<< <<"3">>, <<"3">>, <<"3">>, <<>> >>),             \* empty timestamp
      Row(<< <<"x">>, <<"x">>, <<"x">>, <<"x">> >>),          \* words
      Row(<< <<>> >>) }                                       \* blank line

RECURSIVE SeqsUpTo(_, _)
SeqsUpTo(S, n) ==
    IF n = 0 THEN {<<>>}
    ELSE LET shorter == SeqsUpTo(S, n - 1)
         IN  shorter \cup {Append(s, x) : s \in {t \in shorter : Len(t) = n - 1}, x \in S}

Files == SeqsUpTo(Lines, MaxLines)

(***************************************************************************)
(* DataIter.__init__: the loop over the lines of fname.                    *)
(***************************************************************************)
\* mutant of Skipped: only the lines with too few columns are skipped
Skipped_TooFew(tks) == Len(tks) < 4

\* the condition of "if len(tks) != 4: continue"
Skipped(tks) == Len(tks) # 4

\* (int(tks[0]), int(tks[1]), float(tks[2])): the timestamp is not read
Record(tks) == <<IntOf(tks[1]), IntOf(tks[2]), FloatOf(tks[3])>>

Parses(tks) == IsInt(tks[1]) /\ IsInt(tks[2]) /\ IsFloat(tks[3])

RECURSIVE LoadFrom(_, _)
LoadFrom(lines, acc) ==
    IF lines = <<>> THEN [raised |-> "", data |-> acc]
    ELSE LET tks == Tokens(Head(lines))
         IN  IF Skipped(tks) THEN LoadFrom(Tail(lines), acc)
             ELSE IF ~Parses(tks) THEN [raised |-> "ValueError", data |-> acc]
             ELSE LoadFrom(Tail(lines), Append(acc, Record(tks)))

Load(file) == LoadFrom(file, <<>>)

(***************************************************************************)
(* max_id(fname)                                                           *)
(***************************************************************************)
Max(a, b) == IF a >= b THEN a ELSE b

RECURSIVE MaxIdFrom(_, _, _)
MaxIdFrom(lines, mu, mi) ==
    IF lines = <<>> THEN [raised |-> "", ids |-> <<mu + 1, mi + 1>>]
    ELSE LET tks == Tokens(Head(lines))
         IN  IF Len(tks) # 4 THEN MaxIdFrom(Tail(lines), mu, mi)
             ELSE IF ~IsInt(tks[1]) THEN [raised |-> "ValueError", ids |-> <<>>]
             ELSE IF ~IsInt(tks[2]) THEN [raised |-> "ValueError", ids |-> <<>>]
             ELSE MaxIdFrom(Tail(lines), Max(mu, IntOf(tks[1])), Max(mi, IntOf(tks[2])))

\* mutant of max_id: the largest ids are returned as they are
max_id_NoPlusOne(file) ==
    LET r == MaxIdFrom(file, 0, 0)
    IN  IF r.raised = "" THEN [raised |-> "", ids |-> <<r.ids[1] - 1, r.ids[2] - 1>>]
        ELSE r

max_id(file) == MaxIdFrom(file, 0, 0)

(***************************************************************************)
(* Batch and the body of DataIter.__iter__                                 *)
(***************************************************************************)
\* mx.nd.array(xs): a one-dimensional array, which knows its shape
NDArray(xs) == [shape |-> <<Len(xs)>>, vals |-> xs]

\* Batch.__init__
Batch(data_names, data, label_names, label) ==
    [data_names |-> data_names, data |-> data,
     label_names |-> label_names, label |-> label]

\* [(n, x.shape) for n, x in zip(names, arrays)]
Provide(names, arrays) ==
    [i \in 1..(IF Len(names) <= Len(arrays) THEN Len(names) ELSE Len(arrays))
        |-> <<names[i], arrays[i].shape>>]

BatchProvideData(b) == Provide(b.data_names, b.data)

BatchProvideLabel(b) == Provide(b.label_names, b.label)

\* mutant of Position: the pass index is not multiplied by the batch size
Position_NoStride(k, B, i) == k + i

\* j = k * self.batch_size + i, for the i-th pass of the inner loop
\* (k and i count from 0 in the code; i counts from 1 here, and so does j)
Position(k, B, i) == k * B + i

\* mutant of Column: the item list is filled from the other end of the batch
Column_Misaligned(d, B, k, c) ==
    [i \in 1..B |-> d[Position(k, B, IF c = 2 THEN B + 1 - i ELSE i)][c]]

\* the lists users, items and scores after the inner loop of pass k
Column(d, B, k, c) == [i \in 1..B |-> d[Position(k, B, i)][c]]

\* the batch the k-th pass of the outer loop yields
BatchAt(d, B, k) ==
    Batch(<<"user", "item">>,
          <<NDArray(Column(d, B, k, 1)), NDArray(Column(d, B, k, 2))>>,
          <<"score">>,
          <<NDArray(Column(d, B, k, 3))>>)

\* mutant of NumBatches: the count is taken one record short
NumBatches_OffByOne(N, B) == (N - 1) \div B

\* len(self.data) / self.batch_size: Python 2 integer division
NumBatches(N, B) == N \div B

\* self.provide_data and self.provide_label, set by DataIter.__init__
ProvideData(B) == << <<"user", <<B>> >>, <<"item", <<B>> >> >>

ProvideLabel(B) == << <<"score", <<B>> >> >>

\* mutant of Shuffles: the list is refilled by drawing with replacement
Shuffles_Resample(d) ==
    {[i \in 1..Len(d) |-> d[f[i]]] : f \in [1..Len(d) -> 1..Len(d)]}

\* random.shuffle(self.data): the orders it can leave the list in
Shuffles(d) ==
    LET N == Len(d)
        bij == {f \in [1..N -> 1..N] : \A i, j \in 1..N : f[i] = f[j] => i = j}
    IN  {[i \in 1..N |-> d[f[i]]] : f \in bij}

(***************************************************************************)
(* RMSE and test_RMSE.  A prediction is a Python list or a numpy array of  *)
(* one dimension, or of two with one column (the shape of the network's    *)
(* output); val holds its elements, rows of one element for two            *)
(* dimensions.  A call ends in a value, given by the reduced fraction      *)
(* under the square root, or in the exception it raises.                   *)
(***************************************************************************)
RECURSIVE GCD(_, _)
GCD(a, b) == IF b = 0 THEN a ELSE GCD(b, a % b)

\* mutant of Sqrt: the sum is not divided by the count
Sqrt_NoMean(ret, n) == <<ret, 1>>

\* math.sqrt(ret / n), for n > 0
Sqrt(ret, n) == <<ret \div GCD(ret, n), n \div GCD(ret, n)>>

Returned(sq) == [raised |-> "", sq |-> sq]

Raised(e) == [raised |-> e, sq |-> <<>>]

RECURSIVE Concat(_)
Concat(rows) == IF rows = <<>> THEN <<>> ELSE Head(rows) \o Concat(Tail(rows))

\* pred.flatten(), for an array
Flatten(pred) == IF pred.ndim = 1 THEN pred.val ELSE Concat(pred.val)

HasFlatten(pred) == pred.kind = "ndarray"

\* mutant of SquaredError: the parentheses are left out
SquaredError_NoParens(a, b) == a - b * a - b

\* (label[i] - pred[i]) * (label[i] - pred[i])
SquaredError(a, b) == (a - b) * (a - b)

\* mutant of RMSELoop: the loop stops at the shorter of label and pred
RECURSIVE RMSELoop_Zip(_, _, _, _, _)
RMSELoop_Zip(label, p, i, ret, n) ==
    IF i > Len(label) \/ i > Len(p)
    THEN IF n = 0 THEN [raised |-> "ZeroDivisionError", sq |-> <<>>]
         ELSE [raised |-> "", sq |-> <<ret \div GCD(ret, n), n \div GCD(ret, n)>>]
    ELSE RMSELoop_Zip(label, p, i + 1, ret + (label[i] - p[i]) * (label[i] - p[i]), n + 1)

\* mutant of RMSELoop: an empty input is given the error 0
RECURSIVE RMSELoop_Guarded(_, _, _, _, _)
RMSELoop_Guarded(label, p, i, ret, n) ==
    IF i > Len(label)
    THEN IF n = 0 THEN [raised |-> "", sq |-> <<0, 1>>]
         ELSE [raised |-> "", sq |-> <<ret \div GCD(ret, n), n \div GCD(ret, n)>>]
    ELSE IF i > Len(p) THEN [raised |-> "IndexError", sq |-> <<>>]
    ELSE RMSELoop_Guarded(label, p, i + 1, ret + (label[i] - p[i]) * (label[i] - p[i]), n + 1)

\* the loop "for i in range(len(label))" from index i on, and the return
RECURSIVE RMSELoop(_, _, _, _, _)
RMSELoop(label, p, i, ret, n) ==
    IF i > Len(label)
    THEN IF n = 0 THEN Raised("ZeroDivisionError") ELSE Returned(Sqrt(ret, n))
    ELSE IF i > Len(p) THEN Raised("IndexError")
    ELSE RMSELoop(label, p, i + 1, ret + SquaredError(label[i], p[i]), n + 1)

RMSE(label, pred) ==
    IF ~HasFlatten(pred) THEN Raised("AttributeError")
    ELSE RMSELoop(label, Flatten(pred), 1, 0, 0)

\* pred[i] as test_RMSE's arithmetic sees it: the element, or for a column
\* the one-element row, which math.sqrt converts to its element
Item(pred, i) == IF pred.ndim = 1 THEN pred.val[i] ELSE pred.val[i][1]

\* the value test_RMSE computes and compares with expect_ret
RECURSIVE TestLoop(_, _, _, _, _)
TestLoop(label, pred, i, ret, n) ==
    IF i > Len(label)
    THEN IF n = 0 THEN Raised("ZeroDivisionError") ELSE Returned(Sqrt(ret, n))
    ELSE IF i > Len(pred.val) THEN Raised("IndexError")
    ELSE TestLoop(label, pred, i + 1, ret + SquaredError(label[i], Item(pred, i)), n + 1)

Checked(label, pred) == TestLoop(label, pred, 1, 0, 0)

\* test_RMSE(label, pred, expect_ret): "" when the assertion passes
test_RMSE(label, pred, expect_ret) ==
    LET c == Checked(label, pred)
    IN  IF c.raised # "" THEN c.raised
        ELSE IF c.sq = expect_ret THEN "" ELSE "AssertionError"

PyList(xs) == [kind |-> "list", ndim |-> 1, val |-> xs]

Array1(xs) == [kind |-> "ndarray", ndim |-> 1, val |-> xs]

Column2(xs) == [kind |-> "ndarray", ndim |-> 2, val |-> [i \in 1..Len(xs) |-> <<xs[i]>>]]

\* test_cases and expect_res: math.sqrt(0.8), math.sqrt(0), math.sqrt(25)
test_cases ==
    << [label |-> <<1, 2, 3, 4, 5>>, pred |-> PyList(<<2, 1, 3, 5, 6>>)],
       [label |-> <<10, 10, 9, 9, 8>>, pred |-> PyList(<<10, 10, 9, 9, 8>>)],
       [label |-> <<1, 5, 10, 15, 20>>, pred |-> PyList(<<6, 10, 5, 20, 25>>)] >>

expect_res == << Sqrt(8, 10), Sqrt(0, 1), Sqrt(25, 1) >>

(***************************************************************************)
(* State                                                                   *)
(***************************************************************************)
VARIABLES
    pc,          \* where the notebook run is: "check", "download", "extract",
                 \* "max_id", "get_data", "fit", or "raised" once a cell raised;
                 \* "metric" when the metric cells are run on their own
    archive,     \* whether ml-100k.zip exists locally
    log,         \* what the retrieval cell has done so far, in order
    u_data,      \* ./ml-100k/u.data, once extracted
    u1_base,     \* ./ml-100k/u1.base, once extracted
    max_ids,     \* <<max_user, max_item>>, once max_id has returned
    it,          \* "none", or "ready" once DataIter.__init__ has returned
    data,        \* DataIter.data
    batch_size,  \* DataIter.batch_size
    loaded,      \* DataIter.data as __init__ left it
    gen,         \* the generator of the current pass: "none", "created",
                 \* "suspended", "finished", "ZeroDivisionError"
    n,           \* the length of range(len(self.data) / self.batch_size)
    k,           \* the index of the next pass of the outer loop
    yielded,     \* the batches the current pass has yielded, in order
    read,        \* the positions of self.data each of them was built from
    shuffled,    \* whether reset has run since the current pass was created
    was_reset,   \* whether reset has been called
    label,       \* the arguments of RMSE and test_RMSE ...
    pred,
    expect_ret,
    rmse_out,    \* ... what RMSE(label, pred) ended in, once called
    test_out,    \* ... what test_RMSE ended in and the value it checked
    train_arg,         \* <<the batch_size train was called with>>, once called
    test_batch_size,   \* <<batch_size of the test DataIter>>, once built
    speedometer        \* <<batch_size, frequent>> of the Speedometer, once built

fetch_vars == <<archive, log, u_data, u1_base>>
iter_vars == <<it, data, batch_size, loaded>>
pass_vars == <<gen, n, k, yielded, read, shuffled>>
rmse_vars == <<label, pred, expect_ret, rmse_out, test_out>>
train_vars == <<train_arg, test_batch_size, speedometer>>
vars == <<pc, fetch_vars, max_ids, iter_vars, pass_vars, was_reset, rmse_vars, train_vars>>

NotCalled == Raised("not called")

NoIter ==
    /\ it = "none" /\ data = <<>> /\ batch_size = 0 /\ loaded = <<>>

NoPass ==
    /\ gen = "none" /\ n = 0 /\ k = 0 /\ yielded = <<>> /\ read = <<>>
    /\ shuffled = FALSE /\ was_reset = FALSE

NoRMSE ==
    /\ label = <<>> /\ pred = PyList(<<>>) /\ expect_ret = Sqrt(0, 1)
    /\ rmse_out = NotCalled /\ test_out = NotCalled

NoTrain ==
    /\ train_arg = <<>> /\ test_batch_size = <<>> /\ speedometer = <<>>

(***************************************************************************)
(* The retrieval cell                                                      *)
(***************************************************************************)
Init ==
    /\ pc = "check"
    /\ archive \in BOOLEAN
    /\ log = <<>>
    /\ u_data = <<>> /\ u1_base = <<>>
    /\ max_ids = <<>>
    /\ NoIter /\ NoPass /\ NoRMSE /\ NoTrain

\* mutant of NeedsDownload: the test is the wrong way round
NeedsDownload_Inverted(exists) == exists

\* the condition of "if not os.path.exists('ml-100k.zip')"
NeedsDownload(exists) == ~exists

CheckArchive ==
    /\ pc = "check"
    /\ log' = Append(log, IF archive THEN "exists" ELSE "missing")
    /\ pc' = IF NeedsDownload(archive) THEN "download" ELSE "extract"
    /\ UNCHANGED <<archive, u_data, u1_base, max_ids, iter_vars, pass_vars, was_reset, rmse_vars, train_vars>>

\* urllib.urlretrieve returns: the archive is there
Download ==
    /\ pc = "download"
    /\ archive' = TRUE
    /\ log' = Append(log, "urlretrieve")
    /\ pc' = "extract"
    /\ UNCHANGED <<u_data, u1_base, max_ids, iter_vars, pass_vars, was_reset, rmse_vars, train_vars>>

\* urllib.urlretrieve raises; it may have created the file by then
DownloadRaises ==
    /\ pc = "download"
    /\ archive' \in BOOLEAN
    /\ log' = Append(log, "IOError")
    /\ pc' = "raised"
    /\ UNCHANGED <<u_data, u1_base, max_ids, iter_vars, pass_vars, was_reset, rmse_vars, train_vars>>

\* the pairs of files an archive can hold, within the bound
Archives == {p \in Files \X Files : Len(p[1]) + Len(p[2]) <= MaxLines}

\* zipfile.ZipFile("ml-100k.zip", "r").extractall("./")
Extract ==
    /\ pc = "extract"
    /\ \E p \in Archives : u_data' = p[1] /\ u1_base' = p[2]
    /\ log' = Append(log, "extractall")
    /\ pc' = "max_id"
    /\ UNCHANGED <<archive, max_ids, iter_vars, pass_vars, was_reset, rmse_vars, train_vars>>

\* the file that was there is no zip archive
ExtractRaises ==
    /\ pc = "extract"
    /\ log' = Append(log, "BadZipfile")
    /\ pc' = "raised"
    /\ UNCHANGED <<archive, u_data, u1_base, max_ids, iter_vars, pass_vars, was_reset, rmse_vars, train_vars>>

\* max_user, max_item = max_id('./ml-100k/u.data')
MaxId ==
    /\ pc = "max_id"
    /\ LET r == max_id(u_data)
       IN  /\ max_ids' = r.ids
           /\ pc' = IF r.raised = "" THEN "get_data" ELSE "raised"
    /\ UNCHANGED <<fetch_vars, iter_vars, pass_vars, was_reset, rmse_vars, train_vars>>

(***************************************************************************)
(* DataIter                                                                *)
(***************************************************************************)
\* get_data(B): DataIter('./ml-100k/u1.base', B) and the test DataIter
GetData ==
    /\ pc = "get_data"
    /\ \E B \in 0..MaxBatch :
         LET r == Load(u1_base)
         IN  IF r.raised = ""
             THEN /\ it' = "ready" /\ data' = r.data /\ loaded' = r.data
                  /\ batch_size' = B /\ test_batch_size' = <<B>> /\ pc' = "fit"
             ELSE /\ pc' = "raised" /\ UNCHANGED <<iter_vars, test_batch_size>>
    /\ UNCHANGED <<fetch_vars, max_ids, pass_vars, was_reset, rmse_vars, train_arg, speedometer>>

\* the values train may be given as batch_size: small ones and the 64 the
\* notebook passes
TrainArgs == 0..MaxBatch \cup {64}

\* mutant of train_batch_size: the argument is used
train_batch_size_Arg(arg) == arg

\* batch_size in the body of train, after "batch_size = 64"
train_batch_size(arg) == 64

\* train(network, arg, num_epoch, learning_rate) up to the call of model.fit:
\* get_data(batch_size), then Speedometer(batch_size, 20000/batch_size)
Train ==
    /\ pc = "get_data"
    /\ \E arg \in TrainArgs :
         LET b == train_batch_size(arg)
             r == Load(u1_base)
         IN  /\ train_arg' = <<arg>>
             /\ IF r.raised = ""
                THEN /\ it' = "ready" /\ data' = r.data /\ loaded' = r.data
                     /\ batch_size' = b /\ test_batch_size' = <<b>>
                     /\ speedometer' = IF b = 0 THEN <<>> ELSE <<b, 20000 \div b>>
                     /\ pc' = IF b = 0 THEN "raised" ELSE "fit"
                ELSE /\ pc' = "raised"
                     /\ UNCHANGED <<iter_vars, test_batch_size, speedometer>>
    /\ UNCHANGED <<fetch_vars, max_ids, pass_vars, was_reset, rmse_vars>>

\* mutant of StartPass: the list is shuffled whenever a pass is created
StartPass_Shuffles ==
    /\ pc = "fit" /\ it = "ready"
    /\ gen' = "created" /\ n' = 0 /\ k' = 0
    /\ yielded' = <<>> /\ read' = <<>> /\ shuffled' = FALSE
    /\ data' \in Shuffles(data)
    /\ UNCHANGED <<pc, fetch_vars, max_ids, it, batch_size, loaded, was_reset, rmse_vars, train_vars>>

\* iter(it): a new generator; its body has not started
StartPass ==
    /\ pc = "fit" /\ it = "ready"
    /\ gen' = "created" /\ n' = 0 /\ k' = 0
    /\ yielded' = <<>> /\ read' = <<>> /\ shuffled' = FALSE
    /\ UNCHANGED <<pc, fetch_vars, max_ids, iter_vars, was_reset, rmse_vars, train_vars>>

\* the value of range(len(self.data) / self.batch_size) at this next():
\* computed when the body starts, kept afterwards
RangeLen == IF gen = "created" THEN NumBatches(Len(data), batch_size) ELSE n

\* mutant of NextRaises: a zero batch_size ends the pass quietly
NextRaises_Empty ==
    /\ pc = "fit" /\ gen = "created" /\ batch_size = 0
    /\ gen' = "finished"
    /\ UNCHANGED <<pc, fetch_vars, max_ids, iter_vars, n, k, yielded, read, shuffled, was_reset, rmse_vars, train_vars>>

\* next(): the body starts and the division raises
NextRaises ==
    /\ pc = "fit" /\ gen = "created" /\ batch_size = 0
    /\ gen' = "ZeroDivisionError"
    /\ UNCHANGED <<pc, fetch_vars, max_ids, iter_vars, n, k, yielded, read, shuffled, was_reset, rmse_vars, train_vars>>

\* next(): the outer loop has a pass left and yields its batch
NextYields ==
    /\ pc = "fit" /\ gen \in {"created", "suspended"} /\ batch_size # 0
    /\ k < RangeLen
    /\ n' = RangeLen
    /\ yielded' = Append(yielded, BatchAt(data, batch_size, k))
    /\ read' = Append(read, [i \in 1..batch_size |-> Position(k, batch_size, i)])
    /\ k' = k + 1
    /\ gen' = "suspended"
    /\ UNCHANGED <<pc, fetch_vars, max_ids, iter_vars, shuffled, was_reset, rmse_vars, train_vars>>

\* mutant of NextStops: at the end of the list the generator starts over
NextStops_Wraps ==
    /\ pc = "fit" /\ gen \in {"created", "suspended"} /\ batch_size # 0
    /\ k >= RangeLen
    /\ n' = RangeLen /\ k' = 0 /\ gen' = "suspended"
    /\ yielded' = <<>> /\ read' = <<>>
    /\ UNCHANGED <<pc, fetch_vars, max_ids, iter_vars, shuffled, was_reset, rmse_vars, train_vars>>

\* next(): the outer loop is over, StopIteration
NextStops ==
    /\ pc = "fit" /\ gen \in {"created", "suspended"} /\ batch_size # 0
    /\ k >= RangeLen
    /\ n' = RangeLen
    /\ gen' = "finished"
    /\ UNCHANGED <<pc, fetch_vars, max_ids, iter_vars, k, yielded, read, shuffled, was_reset, rmse_vars, train_vars>>

\* DataIter.reset
Reset ==
    /\ pc = "fit" /\ it = "ready"
    /\ data' \in Shuffles(data)
    /\ was_reset' = TRUE
    /\ shuffled' = TRUE
    /\ UNCHANGED <<pc, fetch_vars, max_ids, it, batch_size, loaded, gen, n, k, yielded, read, rmse_vars, train_vars>>

Next ==
    \/ CheckArchive
    \/ Download
    \/ DownloadRaises
    \/ Extract
    \/ ExtractRaises
    \/ MaxId
    \/ GetData
    \/ Train
    \/ StartPass
    \/ NextRaises
    \/ NextYields
    \/ NextStops
    \/ Reset

Spec == Init /\ [][Next]_vars

(***************************************************************************)
(* The metric cells: RMSE and test_RMSE on the same arguments.  The        *)
(* arguments are the notebook's test cases, as the lists they are written  *)
(* as and as arrays, and every pair of short sequences of small numbers.   *)
(***************************************************************************)
Values == 0..MaxVal

Preds(xs) == {PyList(xs), Array1(xs), Column2(xs)}

Expected == {Sqrt(0, 1), Sqrt(1, 1)}

InitRMSE ==
    /\ pc = "metric"
    /\ archive = TRUE /\ log = <<>> /\ u_data = <<>> /\ u1_base = <<>>
    /\ max_ids = <<>>
    /\ NoIter /\ NoPass
    /\ \/ \E c \in 1..Len(test_cases) :
             /\ label = test_cases[c].label
             /\ pred \in Preds(test_cases[c].pred.val)
             /\ expect_ret = expect_res[c]
       \/ /\ label \in SeqsUpTo(Values, MaxLen)
          /\ \E xs \in SeqsUpTo(Values, MaxLen) : pred \in Preds(xs)
          /\ expect_ret \in Expected
    /\ rmse_out = NotCalled /\ test_out = NotCalled
    /\ NoTrain

\* RMSE(label, pred), as the framework calls the metric
CallRMSE ==
    /\ pc = "metric" /\ rmse_out = NotCalled
    /\ rmse_out' = RMSE(label, pred)
    /\ UNCHANGED <<pc, fetch_vars, max_ids, iter_vars, pass_vars, was_reset,
                   label, pred, expect_ret, test_out, train_vars>>

\* test_RMSE(label, pred, expect_ret)
CallTest ==
    /\ pc = "metric" /\ test_out = NotCalled
    /\ test_out' = [raised |-> test_RMSE(label, pred, expect_ret),
                    sq |-> Checked(label, pred).sq]
    /\ UNCHANGED <<pc, fetch_vars, max_ids, iter_vars, pass_vars, was_reset,
                   label, pred, expect_ret, rmse_out, train_vars>>

NextRMSE ==
    \/ CallRMSE
    \/ CallTest

SpecRMSE == InitRMSE /\ [][NextRMSE]_vars

(***************************************************************************)
(* The training loop's use of a DataIter: from a DataIter as __init__      *)
(* leaves it, "for data_batch in train_data" creates a generator and       *)
(* advances it until it stops, and reset is called between and during      *)
(* passes.  The for loop keeps calling next(), which is the fairness       *)
(* stated.                                                                 *)
(***************************************************************************)
\* the lines of Lines that DataIter.__init__ keeps
Rows == {l \in Lines : ~Skipped(Tokens(l)) /\ Parses(Tokens(l))}

InitFit ==
    /\ pc = "fit"
    /\ archive = TRUE /\ log = <<"exists", "extractall">>
    /\ u_data = <<>> /\ u1_base \in SeqsUpTo(Rows, MaxRows)
    /\ max_ids = max_id(<<>>).ids
    /\ it = "ready"
    /\ data = Load(u1_base).data /\ loaded = data
    /\ batch_size \in 0..MaxBatch
    /\ NoPass /\ NoRMSE
    /\ train_arg = <<>> /\ test_batch_size = <<batch_size>> /\ speedometer = <<>>

\* "for data_batch in train_data": a new pass once the last one is over
ForLoop ==
    /\ gen \notin {"created", "suspended"}
    /\ StartPass

\* next(), whatever it ends in
Advance ==
    \/ NextRaises
    \/ NextYields
    \/ NextStops

NextFit ==
    \/ ForLoop
    \/ NextRaises
    \/ NextYields
    \/ NextStops
    \/ Reset

SpecFit == InitFit /\ [][NextFit]_vars /\ WF_vars(Advance)

(***************************************************************************)
(* Properties                                                              *)
(***************************************************************************)
Range(f) == {f[i] : i \in DOMAIN f}

\* floor(N / B), as the largest q with q * B <= N
Floor(N, B) == CHOOSE q \in 0..N : q * B <= N /\ N < (q + 1) * B

\* how often r occurs in the list d
Count(d, r) == Cardinality({i \in DOMAIN d : d[i] = r})

\* the triple at position i of a batch
Triple(b, i) == <<b.data[1].vals[i], b.data[2].vals[i], b.label[1].vals[i]>>

\* C1: for a DataIter holding N records and batch size B >= 1, a pass never
\* yields more than floor(N / B) batches, a finished pass has yielded exactly
\* floor(N / B), and no batch is built from one of the trailing N mod B
\* positions of the list.
C1_FullPassYieldsFloor ==
    (it = "ready" /\ batch_size >= 1) =>
        LET N == Len(data)
            B == batch_size
        IN  /\ Len(yielded) <= Floor(N, B)
            /\ gen = "finished" => Len(yielded) = Floor(N, B)
            /\ \A b \in DOMAIN read : \A i \in DOMAIN read[b] :
                   read[b][i] >= 1 /\ read[b][i] <= N - (N % B)

\* a finished pass that yielded a batch and dropped trailing records
C1_Witness ==
    /\ it = "ready" /\ gen = "finished" /\ batch_size >= 2
    /\ Len(data) % batch_size # 0
    /\ Len(yielded) >= 1

\* C2: every batch yielded has users, items and scores arrays of length
\* batch_size, the shape provide_data and provide_label declare, and the
\* three arrays are parallel: position i of the three holds one record.
C2_BatchShapeAndParallel ==
    \A b \in DOMAIN yielded :
        LET bt == yielded[b]
        IN  /\ \A a \in Range(bt.data) \cup Range(bt.label) :
                   Len(a.vals) = batch_size /\ a.shape = <<batch_size>>
            /\ BatchProvideData(bt) = ProvideData(batch_size)
            /\ BatchProvideLabel(bt) = ProvideLabel(batch_size)
            /\ \A i \in 1..batch_size : Triple(bt, i) \in Range(loaded)

\* a batch of two different records has been yielded
C2_Witness ==
    \E b \in DOMAIN yielded :
        /\ batch_size >= 2
        /\ Triple(yielded[b], 1) # Triple(yielded[b], 2)
        /\ Triple(yielded[b], 1)[1] # Triple(yielded[b], 2)[1]
        /\ Triple(yielded[b], 1)[2] # Triple(yielded[b], 2)[2]

\* C3: after any number of reset calls the record list has the length and
\* the records (each as often) of the list loaded at construction, and a
\* pass finished after a reset has again yielded floor(N / B) batches.
C3_ResetPermutes ==
    it = "ready" =>
        /\ Len(data) = Len(loaded)
        /\ \A r \in Range(data) \cup Range(loaded) : Count(data, r) = Count(loaded, r)
        /\ (was_reset /\ gen = "finished" /\ batch_size >= 1)
               => Len(yielded) = Floor(Len(loaded), batch_size)

\* a pass started after a reset that changed the order, and finished
C3_Witness ==
    /\ it = "ready" /\ was_reset /\ data # loaded
    /\ gen = "finished" /\ ~shuffled /\ Len(yielded) >= 1

\* the i-th number of a prediction, whatever its form
ElemOf(p, i) == IF p.ndim = 2 THEN p.val[i][1] ELSE p.val[i]

Elems(p) == [i \in 1..Len(p.val) |-> ElemOf(p, i)]

\* the sum of the squared differences of the first m positions
RECURSIVE SumSq(_, _, _)
SumSq(l, p, m) ==
    IF m = 0 THEN 0
    ELSE SumSq(l, p, m - 1) + (l[m] - ElemOf(p, m)) * (l[m] - ElemOf(p, m))

\* the fraction num / den in lowest terms
Lowest(num, den) ==
    CHOOSE r \in (0..num) \X (1..den) :
        /\ r[1] * den = r[2] * num
        /\ \A q \in (0..num) \X (1..den) : q[1] * den = q[2] * num => r[2] <= q[2]

RMSECalled == rmse_out # NotCalled

EqualNonEmpty == Len(label) = Len(pred.val) /\ Len(label) > 0

C8_TestExercisesRMSE ==
    (RMSECalled /\ test_out # NotCalled /\ Len(label) = Len(pred.val)
       /\ test_out.sq # <<>>) => rmse_out = Returned(test_out.sq)

\* DataIter.__init__ has run to its end or to an exception
GetDataRan == pc = "fit" \/ (pc = "raised" /\ max_ids # <<>>)

\* the columns of a line as written: the text before the line end, split
\* at the tabs
RawColumns(line) ==
    Split(IF line # <<>> /\ line[Len(line)] = NL
          THEN SubSeq(line, 1, Len(line) - 1) ELSE line, TAB)

HasFourRawColumns(line) == Len(RawColumns(line)) = 4

HasFourStrippedColumns(line) == Len(Tokens(line)) = 4

Numeric(line) ==
    IsInt(Tokens(line)[1]) /\ IsInt(Tokens(line)[2]) /\ IsFloat(Tokens(line)[3])

RecordOf(cols) == <<IntOf(cols[1]), IntOf(cols[2]), FloatOf(cols[3])>>

\* C7 as claimed: construction never fails and loads exactly one record per
\* line with exactly four tab-separated columns, in file order.
C7_Original ==
    GetDataRan =>
        LET four == SelectSeq(u1_base, HasFourRawColumns)
        IN  /\ it = "ready"
            /\ Len(loaded) = Len(four)
            /\ \A j \in 1..Len(four) : loaded[j] = RecordOf(RawColumns(four[j]))

\* C7, amended: the columns are counted after the line is stripped of its
\* leading and trailing whitespace.  Construction loads exactly one record
\* (int user id, int item id, float rating; the timestamp is dropped) per
\* line with exactly four such columns, in file order, and skips every line
\* with another count without error, provided the first three columns of
\* every four-column line are numbers; otherwise it raises ValueError and
\* no DataIter is built.
C7_LoadsStrippedFourColumnLines ==
    GetDataRan =>
        LET four == SelectSeq(u1_base, HasFourStrippedColumns)
        IN  IF \A j \in 1..Len(four) : Numeric(four[j])
            THEN /\ it = "ready" /\ pc = "fit"
                 /\ Len(loaded) = Len(four)
                 /\ \A j \in 1..Len(four) :
                        /\ loaded[j] = RecordOf(Tokens(four[j]))
                        /\ Len(loaded[j]) = 3
            ELSE it = "none" /\ pc = "raised"

\* a DataIter built from a file with two rows kept and one line skipped
C7_Witness ==
    /\ it = "ready" /\ Len(loaded) = 2 /\ loaded[1] # loaded[2]
    /\ Len(u1_base) = 3

ScannedRows(file) == SelectSeq(file, HasFourStrippedColumns)

ScannedIds(file, c) == {IntOf(Tokens(l)[c]) : l \in Range(ScannedRows(file))}

ScannedPairs(file) ==
    {<<IntOf(Tokens(l)[1]), IntOf(Tokens(l)[2])>> : l \in Range(ScannedRows(file))}

Largest(S) == CHOOSE m \in S : \A x \in S : x <= m

\* the ids of the loaded records are among those of the scanned file
LoadedFromScanned ==
    {<<r[1], r[2]>> : r \in Range(loaded)} \subseteq ScannedPairs(u_data)

Checks == {i \in DOMAIN log : log[i] \in {"exists", "missing"}}

Attempts == {i \in DOMAIN log : log[i] \in {"urlretrieve", "IOError"}}

Extractions == {i \in DOMAIN log : log[i] \in {"extractall", "BadZipfile"}}

\* C10: the retrieval cell makes one existence check; it performs the
\* download if and only if the archive was missing at that check; and the
\* extraction step runs only after the check and, when the archive was
\* missing, only after the download has completed.
C10_DownloadIffMissing ==
    /\ Cardinality(Checks) <= 1
    /\ Cardinality(Attempts) <= 1
    /\ Attempts # {} => (log[1] = "missing" /\ \A i \in Attempts : i > 1)
    /\ pc \notin {"check", "download"} =>
           (Attempts # {} <=> log[1] = "missing")
    /\ \A j \in Extractions :
           /\ 1 \in Checks /\ j > 1
           /\ archive
           /\ log[1] = "missing" => \E i \in 2..(j - 1) : log[i] = "urlretrieve"

\* the archive was missing, was downloaded and then extracted
C10_Witness == log = <<"missing", "urlretrieve", "extractall">>

\* C11: a pass that is advanced again and again finishes, and it has
\* yielded at most floor(N / B) batches at any time, for batch size B >= 1.
C11_PassFinishes ==
    /\ [](batch_size >= 1 => Len(yielded) <= Floor(Len(data), batch_size))
    /\ (gen = "created" /\ batch_size >= 1) ~> (gen = "finished")

\* a pass over four records has finished after two yields
C11_Witness ==
    /\ gen = "finished" /\ Len(data) = 4 /\ batch_size = 2 /\ Len(yielded) = 2

\* the batches, by index, built from position j of the list
BatchesReading(j) == {b \in DOMAIN read : j \in Range(read[b])}

\* C12: within one pass with no reset since it was created, the k-th batch
\* (from 0) holds the records at positions k*B .. k*B + B - 1 of the list
\* (from 0) in that order; no position is in two batches, and once the pass
\* has finished each of the first floor(N / B) * B positions is in exactly
\* one batch.
C12_BatchesPartitionPrefix ==
    (it = "ready" /\ ~shuffled /\ batch_size >= 1) =>
        LET B == batch_size
            N == Len(data)
        IN  /\ \A b \in DOMAIN yielded : \A i \in 1..B :
                   /\ read[b][i] = (b - 1) * B + i
                   /\ Triple(yielded[b], i) = data[(b - 1) * B + i]
            /\ \A j \in 1..N : Cardinality(BatchesReading(j)) <= 1
            /\ \A b \in DOMAIN read : \A i1, i2 \in 1..B :
                   read[b][i1] = read[b][i2] => i1 = i2
            /\ gen = "finished" =>
                   \A j \in 1..(Floor(N, B) * B) : Cardinality(BatchesReading(j)) = 1

\* a finished pass of two batches of two, the second unlike the first
C12_Witness ==
    /\ it = "ready" /\ ~shuffled /\ gen = "finished"
    /\ batch_size = 2 /\ Len(yielded) = 2
    /\ yielded[1] # yielded[2]

\* a step of a pass: the generator is created, advanced or stops
PassStep == <<gen, n, k, yielded, read>>' # <<gen, n, k, yielded, read>>

\* C13: once loaded, the record list, its order and batch_size are left
\* unchanged by every step of a pass (of any number of passes, finished or
\* abandoned); a step that changes the list is a reset, and it changes only
\* the order.
C13_OnlyResetReorders ==
    [][ it = "ready" =>
          /\ batch_size' = batch_size /\ loaded' = loaded /\ it' = it
          /\ PassStep => data' = data
          /\ data' # data =>
                /\ was_reset' /\ shuffled'
                /\ Len(data') = Len(data)
                /\ \A r \in Range(data) \cup Range(data') : Count(data', r) = Count(data, r)
      ]_vars

\* a pass has run to its end and the list is as it was loaded
C13_Witness ==
    /\ it = "ready" /\ gen = "finished" /\ ~was_reset
    /\ Len(yielded) >= 2 /\ data = loaded /\ data[1] # data[2]

PredLonger == Len(pred.val) > Len(label)

PredShorter == Len(pred.val) < Len(label)

C14_ShortWitness ==
    /\ RMSECalled /\ pred.kind = "ndarray"
    /\ Len(label) = 2 /\ Len(pred.val) = 1
    /\ rmse_out = Raised("IndexError")

\* an iterator whose list is empty or shorter than one batch
NoFullBatch == batch_size >= 1 /\ (Len(data) = 0 \/ batch_size > Len(data))

\* C15: with an empty record list, or a batch_size larger than the number of
\* records, a pass yields no batch and finishes without an error; with
\* batch_size 0 the first step of a pass raises ZeroDivisionError before any
\* batch is yielded.
C15_DegenerateSizes ==
    /\ [](NoFullBatch => (gen \in {"none", "created", "finished"} /\ yielded = <<>>))
    /\ [](batch_size = 0 => (gen \in {"none", "created", "ZeroDivisionError"} /\ yielded = <<>>))
    /\ (gen = "created" /\ NoFullBatch) ~> (gen = "finished" /\ yielded = <<>>)
    /\ (gen = "created" /\ batch_size = 0) ~> (gen = "ZeroDivisionError" /\ yielded = <<>>)

\* a pass over three records with batch_size 0 has raised
C15_Witness ==
    /\ it = "ready" /\ batch_size = 0 /\ Len(data) = 3
    /\ gen = "ZeroDivisionError" /\ yielded = <<>>

\* a pass over two records with batch_size 3 has finished with no batch
C15_ShortListWitness ==
    /\ it = "ready" /\ batch_size = 3 /\ Len(data) = 2
    /\ gen = "finished" /\ yielded = <<>>

\* a pass over no records has finished with no batch
C15_EmptyListWitness ==
    /\ it = "ready" /\ batch_size >= 1 /\ data = <<>>
    /\ gen = "finished" /\ yielded = <<>>

TrainCalled == train_arg # <<>>

\* C16: the batch_size argument of train has no effect: whatever value train
\* is called with, the train and test iterators are built with batch size 64
\* and the Speedometer is configured with 64, so what train configures is
\* determined by the file alone and is the same for any two arguments.
C16_TrainIgnoresBatchSize ==
    (TrainCalled /\ it = "ready") =>
        /\ batch_size = 64 /\ test_batch_size = <<64>>
        /\ speedometer = <<64, 312>>
        /\ loaded = Load(u1_base).data
        /\ pc = "fit"

\* train was called with batch_size 2 on a file of two or more records and
\* its iterators and Speedometer have 64
C16_Witness ==
    /\ train_arg = <<2>> /\ it = "ready" /\ Len(loaded) >= 2
    /\ batch_size = 64 /\ test_batch_size = <<64>> /\ speedometer[1] = 64
=============================================================================
